---- MODULE Spec2Model ----
(***************************************************************************)
(* Model of backend/utils.py: get_agent_response, the wrapper that sends   *)
(* a conversation to litellm.completion and returns the history extended   *)
(* by the assistant's reply.                                               *)
(*                                                                         *)
(* Python lists are objects: `heap` maps list identities (1..Len(heap))    *)
(* to their current contents, and the function's parameters and locals     *)
(* hold identities.  `a + b` allocates a new list, `x = y` aliases.  The   *)
(* message dicts themselves are never written by the function, so they are *)
(* kept as values.  A str is the sequence of its Unicode code points, so   *)
(* that str.strip() can be computed on every character a str can hold.     *)
(***************************************************************************)
EXTENDS Naturals, Sequences, FiniteSets

\* ---- bounds of the model --------------------------------------------------
MaxHistLen == 2
MaxCalls == 2
NumSessions == 2

Sessions == 1..NumSessions

\* ---- text and messages ----------------------------------------------------
\* The persona text of SYSTEM_PROMPT (opaque to the function), abbreviated.
PersonaText == <<10, 82, 111, 108, 101>>   \* "\nRole"
\* The default of os.environ.get("MODEL_NAME", ...).
DefaultModel == "gpt-4o-mini"
\* Values MODEL_NAME can have after start-up: the default, or the environment's.
ModelNames == {DefaultModel, "env-model"}

Roles == {"system", "user", "assistant", "tool"}
TextHi == <<104, 105>>   \* "hi"
Contents == {<<>>, TextHi, PersonaText}
Messages == [role : Roles, content : Contents]

Msg(r, c) == [role |-> r, content |-> c]

RECURSIVE SeqsUpTo(_, _)
SeqsUpTo(S, n) ==
  IF n = 0 THEN {<<>>}
  ELSE LET shorter == SeqsUpTo(S, n - 1)
       IN shorter \cup {Append(q, x) : q \in {t \in shorter : Len(t) = n - 1}, x \in S}

Histories == SeqsUpTo(Messages, MaxHistLen)
\* Histories of the concurrent sessions: one led by a system message, one not.
ConcHistories == {<<Msg("system", TextHi), Msg("user", TextHi)>>,
                  <<Msg("user", TextHi)>>}

\* ---- str.strip() ----------------------------------------------------------
\* The code points str.strip() removes: those for which str.isspace() holds
\* (\t \n \v \f \r, FS GS RS US, space, NEL, NBSP, and the Unicode spaces
\* and line and paragraph separators).
Whitespace ==
  (9..13) \cup (28..32) \cup {133, 160, 5760} \cup (8192..8202)
    \cup {8232, 8233, 8239, 8287, 12288}

RECURSIVE lstrip(_)
lstrip(s) == IF s # <<>> /\ Head(s) \in Whitespace THEN lstrip(Tail(s)) ELSE s

RECURSIVE rstrip(_)
rstrip(s) ==
  IF s # <<>> /\ s[Len(s)] \in Whitespace THEN rstrip(SubSeq(s, 1, Len(s) - 1)) ELSE s

\* Variant: only the leading whitespace is removed.
stripLeadingOnly(s) == lstrip(s)

strip(s) == rstrip(lstrip(s))

\* ---- the completion service's possible answers ----------------------------
\* A choice is a message whose content is text or None.
Choice(c) == [isNone |-> FALSE, content |-> c]
NoneChoice == [isNone |-> TRUE, content |-> <<>>]

TextOk == <<111, 107>>   \* "ok"
TextNo == <<110, 111>>   \* "no"
\* "  Hi yo  \n"
TextPadded == <<32, 32, 72, 105, 32, 121, 111, 32, 32, 10>>
\* "Hi yo"
TextHiYo == <<72, 105, 32, 121, 111>>
\* Whitespace only: space, \t, \v, FS, NBSP, EM SPACE, \n.
TextBlank == <<32, 9, 11, 28, 160, 8195, 10>>
\* \v, ZERO WIDTH SPACE (not whitespace), "ok", NBSP, US.
TextExotic == <<11, 8203, 111, 107, 160, 31>>

ReplyTexts == {<<>>, TextBlank, TextOk, TextPadded, TextExotic}

Response(ch) == [kind |-> "response", error |-> "", choices |-> ch]
NoCompletion == [kind |-> "none", error |-> "", choices |-> <<>>]

Completions ==
  {Response(<<>>), Response(<<NoneChoice>>)}
    \cup {Response(<<Choice(t)>>) : t \in ReplyTexts}
    \cup {Response(<<Choice(TextOk), Choice(TextNo)>>)}

ServiceErrors == {"APIConnectionError", "RateLimitError"}

\* ---- outcomes of a call ---------------------------------------------------
NoOutcome == [kind |-> "none", value |-> 0, error |-> ""]
Returned(ref) == [kind |-> "return", value |-> ref, error |-> ""]
Raised(e) == [kind |-> "raise", value |-> 0, error |-> e]

VARIABLES
  SYSTEM_PROMPT,            \* module global, set at import
  MODEL_NAME,               \* module global, set at import
  heap,                     \* list objects: identity -> sequence of messages
  pc,                       \* per session: position in get_agent_response
  messages,                 \* per session: the parameter (a list identity)
  current_messages,         \* per session: local (a list identity, 0 unbound)
  completion,               \* per session: local, the service's answer
  assistant_reply_content,  \* per session: local
  updated_messages,         \* per session: local (a list identity, 0 unbound)
  outcome,                  \* per session: how the last call ended
  requests,                 \* the calls litellm.completion has received
  callsLeft,                \* caller: calls the session will still make
  callNo,                   \* caller: number of the session's current call
  snapshot,                 \* caller: contents of the argument when the call began
  log                       \* caller: input and result of each returned call

vars == <<SYSTEM_PROMPT, MODEL_NAME, heap, pc, messages, current_messages,
          completion, assistant_reply_content, updated_messages, outcome,
          requests, callsLeft, callNo, snapshot, log>>

globals == <<SYSTEM_PROMPT, MODEL_NAME>>
locals == <<current_messages, completion, assistant_reply_content, updated_messages>>
caller == <<callsLeft, callNo, snapshot, log>>

\* ---- list operations ------------------------------------------------------
\* Variant: one scratch list is kept and reused by every allocation.
AllocShared(h, v) ==
  IF Len(h) > NumSessions
  THEN [heap |-> [h EXCEPT ![NumSessions + 1] = v], ref |-> NumSessions + 1]
  ELSE [heap |-> Append(h, v), ref |-> Len(h) + 1]

\* A new list object holding v: the heap after, and the new identity.
Alloc(h, v) == [heap |-> Append(h, v), ref |-> Len(h) + 1]

\* Variant: the prompt is injected only into an empty history.
EffectiveOnlyWhenEmpty(h, prompt, msgs) ==
  IF h[msgs] = <<>>
  THEN Alloc(h, <<Msg("system", prompt)>> \o h[msgs])
  ELSE [heap |-> h, ref |-> msgs]

\* Variant: a leading system message that is not the prompt is replaced by it.
EffectiveForcePersona(h, prompt, msgs) ==
  IF h[msgs] = <<>> \/ h[msgs][1].role # "system"
  THEN Alloc(h, <<Msg("system", prompt)>> \o h[msgs])
  ELSE IF h[msgs][1].content # prompt
       THEN Alloc(h, <<Msg("system", prompt)>> \o Tail(h[msgs]))
       ELSE [heap |-> h, ref |-> msgs]

\* Variant: the prompt is injected on every call.
EffectiveAlways(h, prompt, msgs) == Alloc(h, <<Msg("system", prompt)>> \o h[msgs])

\* Variant: a system message anywhere in the history suppresses the injection.
EffectiveAnySystem(h, prompt, msgs) ==
  IF \A i \in 1..Len(h[msgs]) : h[msgs][i].role # "system"
  THEN Alloc(h, <<Msg("system", prompt)>> \o h[msgs])
  ELSE [heap |-> h, ref |-> msgs]

\* Lines 222-225: the list bound to current_messages.
Effective(h, prompt, msgs) ==
  IF h[msgs] = <<>> \/ h[msgs][1].role # "system"
  THEN Alloc(h, <<Msg("system", prompt)>> \o h[msgs])
  ELSE [heap |-> h, ref |-> msgs]

\* Variant: a response without a usable first choice yields an empty reply.
ExtractContentFallback(c) ==
  IF c.choices = <<>> \/ c.choices[1].isNone
  THEN [ok |-> TRUE, error |-> "", content |-> <<>>]
  ELSE [ok |-> TRUE, error |-> "", content |-> strip(c.choices[1].content)]

\* Lines 232-235: completion["choices"][0]["message"]["content"].strip()
ExtractContent(c) ==
  IF c.choices = <<>> THEN [ok |-> FALSE, error |-> "IndexError", content |-> <<>>]
  ELSE IF c.choices[1].isNone
       THEN [ok |-> FALSE, error |-> "AttributeError", content |-> <<>>]
       ELSE [ok |-> TRUE, error |-> "", content |-> strip(c.choices[1].content)]

\* Variant: current_messages.append(...) in place, returning the same list.
AppendReplyInPlace(h, cur, content) ==
  [heap |-> [h EXCEPT ![cur] = @ \o <<Msg("assistant", content)>>], ref |-> cur]

\* Variant: an empty reply is not appended.
AppendReplyUnlessEmpty(h, cur, content) ==
  IF content = <<>> THEN Alloc(h, h[cur])
  ELSE Alloc(h, h[cur] \o <<Msg("assistant", content)>>)

\* Line 238: current_messages + [{"role": "assistant", "content": ...}]
AppendReply(h, cur, content) == Alloc(h, h[cur] \o <<Msg("assistant", content)>>)

\* ---- initial states -------------------------------------------------------
InitCommon ==
  /\ SYSTEM_PROMPT = PersonaText
  /\ pc = [s \in Sessions |-> "idle"]
  /\ messages = [s \in Sessions |-> 0]
  /\ current_messages = [s \in Sessions |-> 0]
  /\ completion = [s \in Sessions |-> NoCompletion]
  /\ assistant_reply_content = [s \in Sessions |-> <<>>]
  /\ updated_messages = [s \in Sessions |-> 0]
  /\ outcome = [s \in Sessions |-> NoOutcome]
  /\ requests = <<>>
  /\ callNo = [s \in Sessions |-> 0]
  /\ snapshot = [s \in Sessions |-> <<>>]
  /\ log = [s \in Sessions |-> <<>>]

\* One session makes up to MaxCalls successive calls from any bounded history.
Init ==
  /\ InitCommon
  /\ MODEL_NAME \in ModelNames
  /\ \E h0 \in Histories : heap = [s \in Sessions |-> IF s = 1 THEN h0 ELSE <<>>]
  /\ callsLeft = [s \in Sessions |-> IF s = 1 THEN MaxCalls ELSE 0]

\* Every session makes one call, each on its own history.
InitConc ==
  /\ InitCommon
  /\ MODEL_NAME = DefaultModel
  /\ heap \in [Sessions -> ConcHistories]
  /\ callsLeft = [s \in Sessions |-> 1]

\* ---- the caller -----------------------------------------------------------
\* The caller invokes get_agent_response: the first time on its own history
\* (list s), afterwards on the list the previous call returned.
Invoke(s) ==
  /\ pc[s] \in {"idle", "returned"}
  /\ callsLeft[s] > 0
  /\ LET arg == IF pc[s] = "returned" THEN outcome[s].value ELSE s
     IN /\ messages' = [messages EXCEPT ![s] = arg]
        /\ snapshot' = [snapshot EXCEPT ![s] = heap[arg]]
  /\ current_messages' = [current_messages EXCEPT ![s] = 0]
  /\ completion' = [completion EXCEPT ![s] = NoCompletion]
  /\ assistant_reply_content' = [assistant_reply_content EXCEPT ![s] = <<>>]
  /\ updated_messages' = [updated_messages EXCEPT ![s] = 0]
  /\ outcome' = [outcome EXCEPT ![s] = NoOutcome]
  /\ callsLeft' = [callsLeft EXCEPT ![s] = @ - 1]
  /\ callNo' = [callNo EXCEPT ![s] = @ + 1]
  /\ pc' = [pc EXCEPT ![s] = "L222"]
  /\ UNCHANGED <<globals, heap, requests, log>>

\* ---- get_agent_response ---------------------------------------------------
\* Lines 222-225.
BuildEffective(s) ==
  /\ pc[s] = "L222"
  /\ LET e == Effective(heap, SYSTEM_PROMPT, messages[s])
     IN /\ heap' = e.heap
        /\ current_messages' = [current_messages EXCEPT ![s] = e.ref]
  /\ pc' = [pc EXCEPT ![s] = "L227"]
  /\ UNCHANGED <<globals, messages, completion, assistant_reply_content,
                 updated_messages, outcome, requests, caller>>

\* Variant: the caller's list is submitted instead of current_messages.
RequestOriginalMessages(s, model, ref, h) ==
  [session |-> s, call |-> callNo[s], model |-> model, messages |-> messages[s],
   sent |-> h[messages[s]]]

\* Lines 227-230: litellm.completion is entered with the model and the list.
Request(s, model, ref, h) ==
  [session |-> s, call |-> callNo[s], model |-> model, messages |-> ref, sent |-> h[ref]]

Submit(s) ==
  /\ pc[s] = "L227"
  /\ requests' = Append(requests, Request(s, MODEL_NAME, current_messages[s], heap))
  /\ pc' = [pc EXCEPT ![s] = "waiting"]
  /\ UNCHANGED <<globals, heap, messages, locals, outcome, caller>>

\* litellm.completion returns a response object.
ServiceReturns(s) ==
  /\ pc[s] = "waiting"
  /\ \E c \in Completions : completion' = [completion EXCEPT ![s] = c]
  /\ pc' = [pc EXCEPT ![s] = "L232"]
  /\ UNCHANGED <<globals, heap, messages, current_messages, assistant_reply_content,
                 updated_messages, outcome, requests, caller>>

\* litellm.completion raises; nothing in get_agent_response catches it.
ServiceRaises(s) ==
  /\ pc[s] = "waiting"
  /\ \E e \in ServiceErrors :
       /\ completion' = [completion EXCEPT ![s] = [kind |-> "error", error |-> e, choices |-> <<>>]]
       /\ outcome' = [outcome EXCEPT ![s] = Raised(e)]
  /\ pc' = [pc EXCEPT ![s] = "raised"]
  /\ UNCHANGED <<globals, heap, messages, current_messages, assistant_reply_content,
                 updated_messages, requests, caller>>

\* Lines 232-235.
ExtractReply(s) ==
  /\ pc[s] = "L232"
  /\ LET x == ExtractContent(completion[s])
     IN IF x.ok
        THEN /\ assistant_reply_content' = [assistant_reply_content EXCEPT ![s] = x.content]
             /\ pc' = [pc EXCEPT ![s] = "L238"]
             /\ UNCHANGED outcome
        ELSE /\ outcome' = [outcome EXCEPT ![s] = Raised(x.error)]
             /\ pc' = [pc EXCEPT ![s] = "raised"]
             /\ UNCHANGED assistant_reply_content
  /\ UNCHANGED <<globals, heap, messages, current_messages, completion,
                 updated_messages, requests, caller>>

\* Lines 238-239.
Return(s) ==
  /\ pc[s] = "L238"
  /\ LET a == AppendReply(heap, current_messages[s], assistant_reply_content[s])
     IN /\ heap' = a.heap
        /\ updated_messages' = [updated_messages EXCEPT ![s] = a.ref]
        /\ outcome' = [outcome EXCEPT ![s] = Returned(a.ref)]
        /\ log' = [log EXCEPT ![s] = Append(@, [input |-> snapshot[s],
                                                 result |-> a.heap[a.ref]])]
  /\ pc' = [pc EXCEPT ![s] = "returned"]
  /\ UNCHANGED <<globals, messages, current_messages, completion,
                 assistant_reply_content, requests, callsLeft, callNo, snapshot>>

Next ==
  \E s \in Sessions :
    \/ Invoke(s)
    \/ BuildEffective(s)
    \/ Submit(s)
    \/ ServiceReturns(s)
    \/ ServiceRaises(s)
    \/ ExtractReply(s)
    \/ Return(s)

Spec == Init /\ [][Next]_vars
SpecConc == InitConc /\ [][Next]_vars

\* ---- vocabulary of the properties -----------------------------------------
LeadsWithSystem(h) == h # <<>> /\ h[1].role = "system"
PersonaMessage == Msg("system", PersonaText)
HasReturned(s) == pc[s] = "returned"
HasRaised(s) == pc[s] = "raised"
ResultOf(s) == heap[outcome[s].value]
Last(q) == q[Len(q)]
ButLast(q) == SubSeq(q, 1, Len(q) - 1)
\* The requests the session's current call has made.
RequestsOf(s) ==
  {i \in 1..Len(requests) : requests[i].session = s /\ requests[i].call = callNo[s]}
\* The call has gone past the completion call's entry.
HasSubmitted(s) == pc[s] \in {"waiting", "L232", "L238", "returned", "raised"}

\* C1: a returned call on a history that is empty or not led by a system
\* message yields the persona system message, then the input messages in
\* order and unchanged, then one assistant message, and nothing else.
C1_InjectionWhenAbsent ==
  \A s \in Sessions :
    (HasReturned(s) /\ ~LeadsWithSystem(snapshot[s])) =>
      /\ Len(ResultOf(s)) = Len(snapshot[s]) + 2
      /\ ResultOf(s)[1] = PersonaMessage
      /\ SubSeq(ResultOf(s), 2, Len(snapshot[s]) + 1) = snapshot[s]
      /\ Last(ResultOf(s)).role = "assistant"

C1_Witness ==
  \E s \in Sessions :
    /\ HasReturned(s)
    /\ Len(snapshot[s]) = 2
    /\ snapshot[s][1].role = "user"
    /\ ResultOf(s)[1] = PersonaMessage

\* C2: a returned call on a history led by a system message, whatever its
\* content, yields the input verbatim followed by exactly one assistant
\* message; the persona is neither substituted nor prepended.
C2_NoInjectionWhenSystemLeads ==
  \A s \in Sessions :
    (HasReturned(s) /\ LeadsWithSystem(snapshot[s])) =>
      /\ Len(ResultOf(s)) = Len(snapshot[s]) + 1
      /\ ButLast(ResultOf(s)) = snapshot[s]
      /\ Last(ResultOf(s)).role = "assistant"

C2_Witness ==
  \E s \in Sessions :
    /\ HasReturned(s)
    /\ LeadsWithSystem(snapshot[s])
    /\ snapshot[s][1].content # PersonaText
    /\ ResultOf(s)[1] = snapshot[s][1]

\* C3: when each result is fed into the next call, only the first call can
\* inject a system message, the first element stays what the first call
\* returned, and every later call appends exactly one assistant message.
C3_ChainedCalls ==
  \A s \in Sessions :
    /\ \A k \in 2..Len(log[s]) :
         /\ log[s][k].input = log[s][k - 1].result
         /\ log[s][k].result[1] = log[s][1].result[1]
         /\ Len(log[s][k].result) = Len(log[s][k].input) + 1
         /\ ButLast(log[s][k].result) = log[s][k].input
         /\ Last(log[s][k].result).role = "assistant"
    /\ (callNo[s] >= 2 /\ pc[s] \notin {"idle", "L222"}) =>
         current_messages[s] = messages[s]

C3_Witness ==
  \E s \in Sessions :
    /\ Len(log[s]) >= 2
    /\ Len(log[s][1].result) = Len(log[s][1].input) + 2
    /\ Len(log[s][2].result) = Len(log[s][1].input) + 3

\* C4: a call whose completion call raised, or whose response has no usable
\* first choice, raises that error: nothing is returned, no assistant message
\* is built, the service was called once, and the input is as it was.
ExpectedError(c) ==
  IF c.kind = "error" THEN c.error
  ELSE IF c.choices = <<>> THEN "IndexError" ELSE "AttributeError"

Unusable(c) ==
  \/ c.kind = "error"
  \/ c.kind = "response" /\ (c.choices = <<>> \/ c.choices[1].isNone)

C4_FailurePropagates ==
  \A s \in Sessions :
    /\ (pc[s] \in {"L238", "returned", "raised"} /\ Unusable(completion[s])) =>
         /\ HasRaised(s)
         /\ outcome[s] = Raised(ExpectedError(completion[s]))
         /\ updated_messages[s] = 0
         /\ Len(log[s]) = callNo[s] - 1
         /\ Cardinality(RequestsOf(s)) = 1
         /\ heap[messages[s]] = snapshot[s]
    /\ HasRaised(s) => Unusable(completion[s])

C4_Witness ==
  /\ \E s \in Sessions : HasRaised(s) /\ completion[s].kind = "error"
                         /\ snapshot[s] # <<>>

\* C5: a call never changes the list it was given, with or without
\* injection, returning or raising; the returned list is a new object; no
\* existing list and neither module global is ever written.
C5_InputIntact ==
  \A s \in Sessions :
    /\ pc[s] # "idle" => heap[messages[s]] = snapshot[s]
    /\ HasReturned(s) => /\ outcome[s].value # messages[s]
                         /\ outcome[s].value # current_messages[s]
    /\ Len(log[s]) >= 1 => heap[s] = log[s][1].input

C5_FrameStep ==
  /\ \A i \in 1..Len(heap) : heap'[i] = heap[i]
  /\ SYSTEM_PROMPT' = SYSTEM_PROMPT
  /\ MODEL_NAME' = MODEL_NAME

C5_NoMutation == [](C5_InputIntact) /\ [][C5_FrameStep]_vars

C5_Witness ==
  \E s \in Sessions :
    /\ HasReturned(s)
    /\ current_messages[s] = messages[s]
    /\ Len(heap[messages[s]]) + 1 = Len(ResultOf(s))

\* C6: a returned call on a history of length N yields N+1 messages when the
\* history is led by a system message and N+2 otherwise (N = 0 included), and
\* never fewer than were submitted to the completion service.
C6_Lengths ==
  \A s \in Sessions :
    HasReturned(s) =>
      /\ Len(ResultOf(s)) =
           Len(snapshot[s]) + (IF LeadsWithSystem(snapshot[s]) THEN 1 ELSE 2)
      /\ \A i \in RequestsOf(s) : Len(ResultOf(s)) >= Len(requests[i].sent)

C6_Witness ==
  \E s \in Sessions :
    HasReturned(s) /\ snapshot[s] = <<>> /\ Len(ResultOf(s)) = 2
    /\ Last(ResultOf(s)).content = <<>>

\* C7: each call makes exactly one request to the completion service, none
\* before line 227, carrying MODEL_NAME and the list current_messages: the
\* returned conversation without its last message.
C7_OneRequest ==
  \A s \in Sessions :
    /\ pc[s] \in {"L222", "L227"} => RequestsOf(s) = {}
    /\ HasSubmitted(s) =>
         /\ Cardinality(RequestsOf(s)) = 1
         /\ \A i \in RequestsOf(s) :
              /\ requests[i].model = MODEL_NAME
              /\ requests[i].messages = current_messages[s]
              /\ requests[i].sent = heap[current_messages[s]]
              /\ HasReturned(s) => requests[i].sent = ButLast(ResultOf(s))
              /\ (HasReturned(s) /\ ResultOf(s)[1] = PersonaMessage) =>
                   (requests[i].sent # <<>> /\ requests[i].sent[1] = PersonaMessage)

C7_Witness ==
  \E s \in Sessions :
    /\ HasReturned(s)
    /\ callNo[s] = 2
    /\ ~LeadsWithSystem(log[s][1].input)
    /\ \E i \in RequestsOf(s) : requests[i].sent[1] = PersonaMessage

\* C8: the last message of a returned conversation has role assistant and
\* the first choice's content without its leading and trailing whitespace,
\* interior whitespace kept; exactly one message is appended.
AllWhitespace(q) == \A i \in 1..Len(q) : q[i] \in Whitespace

IsTrimOf(t, raw) ==
  /\ t = <<>> \/ (t[1] \notin Whitespace /\ t[Len(t)] \notin Whitespace)
  /\ \E i \in 0..Len(raw) :
       /\ i + Len(t) <= Len(raw)
       /\ AllWhitespace(SubSeq(raw, 1, i))
       /\ SubSeq(raw, i + 1, i + Len(t)) = t
       /\ AllWhitespace(SubSeq(raw, i + Len(t) + 1, Len(raw)))

C8_TrimmedReply ==
  \A s \in Sessions :
    HasReturned(s) =>
      /\ Last(ResultOf(s)).role = "assistant"
      /\ IsTrimOf(Last(ResultOf(s)).content, completion[s].choices[1].content)
      /\ ButLast(ResultOf(s)) = heap[current_messages[s]]
      /\ completion[s].choices[1].content = TextBlank =>
           Last(ResultOf(s)).content = <<>>
      /\ completion[s].choices[1].content = TextExotic =>
           Last(ResultOf(s)).content = <<8203>> \o TextOk

C8_Witness ==
  \E s \in Sessions :
    /\ HasReturned(s)
    /\ completion[s].choices[1].content = TextPadded
    /\ Last(ResultOf(s)) = Msg("assistant", TextHiYo)

\* C9: with the sessions' calls interleaved in any order, each call ends as
\* it would alone, on its own history and its own reply, and its request
\* carries its own conversation.
AloneEffective(h) == IF LeadsWithSystem(h) THEN h ELSE <<PersonaMessage>> \o h

C9_Isolation ==
  \A s \in Sessions :
    /\ pc[s] # "idle" => heap[s] = snapshot[s]
    /\ HasSubmitted(s) =>
         \A i \in RequestsOf(s) : requests[i].sent = AloneEffective(snapshot[s])
    /\ pc[s] \notin {"idle", "L222"} =>
         heap[current_messages[s]] = AloneEffective(snapshot[s])
    /\ HasReturned(s) =>
         /\ ~Unusable(completion[s])
         /\ ButLast(ResultOf(s)) = AloneEffective(snapshot[s])
         /\ Last(ResultOf(s)).role = "assistant"
         /\ IsTrimOf(Last(ResultOf(s)).content, completion[s].choices[1].content)
    /\ HasRaised(s) =>
         /\ Unusable(completion[s])
         /\ outcome[s] = Raised(ExpectedError(completion[s]))

C9_Witness ==
  \E s, t \in Sessions :
    /\ s # t
    /\ HasReturned(s) /\ HasReturned(t)
    /\ snapshot[s] # snapshot[t]
    /\ completion[s] # completion[t]
    /\ requests[1].session = s
    /\ outcome[t].value < outcome[s].value
    /\ Last(ResultOf(s)).content # Last(ResultOf(t)).content

\* C10: no input is validated or rejected locally: whatever the roles and
\* contents, the prompt is injected unless the first role is exactly system,
\* every input message is submitted unchanged, and a call raises only after
\* the completion service was called.
C10_NoValidation ==
  \A s \in Sessions :
    /\ pc[s] \notin {"idle", "L222"} =>
         heap[current_messages[s]] =
           (IF snapshot[s] # <<>> /\ snapshot[s][1].role = "system"
            THEN snapshot[s] ELSE <<PersonaMessage>> \o snapshot[s])
    /\ HasSubmitted(s) =>
         /\ RequestsOf(s) # {}
         /\ \A i \in RequestsOf(s) :
              /\ Len(requests[i].sent) >= Len(snapshot[s])
              /\ SubSeq(requests[i].sent, Len(requests[i].sent) - Len(snapshot[s]) + 1,
                        Len(requests[i].sent)) = snapshot[s]
    /\ HasRaised(s) => (HasSubmitted(s) /\ completion[s].kind # "none")

C10_Witness ==
  \E s \in Sessions :
    /\ pc[s] = "waiting"
    /\ snapshot[s] = <<Msg("tool", <<>>), Msg("system", TextHi)>>
    /\ \E i \in RequestsOf(s) :
         requests[i].sent = <<PersonaMessage>> \o snapshot[s]

====
